---- MODULE Spec2Model ----
(***************************************************************************)
(* The social graph service of the backend: the Neo4j store (User nodes,   *)
(* FOLLOWS relationships, Post nodes and their POSTED relationships), the  *)
(* Neo4jService operations that query and change it, the request handlers  *)
(* that call them, and the script that seeds the posts.                    *)
(*                                                                         *)
(* The store is modelled as Cypher sees it. A User node has an identity    *)
(* of its own (its position in `users`); its `id` property is data, and    *)
(* nothing in the code or the schema makes it unique. `follows` maps each  *)
(* ordered pair of nodes joined by FOLLOWS relationships to their number,  *)
(* so that MERGE and CREATE differ. A MATCH with several pattern parts     *)
(* never binds the same relationship twice (Cypher's relationship          *)
(* uniqueness).                                                            *)
(*                                                                         *)
(* A node carries id, username and name. bio and avatar are written by the *)
(* same statements as name, and email by the one statement that writes id; *)
(* no condition reads them. So name stands for bio and avatar, and id for  *)
(* email.                                                                  *)
(***************************************************************************)
EXTENDS Integers, Sequences, FiniteSets, TLC

(* users:   the User nodes, in the order of their creation                *)
(* follows: the FOLLOWS relationships                                      *)
(* posts:   the Post nodes, each with the User node that POSTED it         *)
(* last:    the last request served and its response                       *)
(* pre:     the store as that request found it                             *)
(* queries: the queries that request ran in its session, in order          *)
(* requests: the requests in flight, each with the await its coroutine has *)
(*          reached                                                        *)
(* sessions: the sessions driver.session() has returned, in order          *)
VARIABLES users, follows, posts, last, pre, queries, requests, sessions

vars == <<users, follows, posts, last, pre, queries, requests, sessions>>

-----------------------------------------------------------------------------
(* Bounds of the model *)

(* User nodes in the directory scenario *)
MaxUsers == 2

(* User nodes in the graph scenario *)
MaxNodes == 5

(* FOLLOWS relationships in the graph scenario *)
MaxEdges == 7

(* Post nodes in the feed scenario *)
MaxPosts == 5

(* instants of the clock in the feed scenario *)
MaxTime == 3

(* LIMIT 10 of the suggestions query *)
SuggestionLimit == 10

(* the default of the limit parameter of get_following_suggestions *)
DefaultLimit == 10

-----------------------------------------------------------------------------
(* Strings are sequences of characters, so that toLower is computed. *)

UpperChars == <<"A", "B", "C", "D", "E", "F", "G", "H", "I", "J", "K", "L", "M",
                "N", "O", "P", "Q", "R", "S", "T", "U", "V", "W", "X", "Y", "Z">>

LowerChars == <<"a", "b", "c", "d", "e", "f", "g", "h", "i", "j", "k", "l", "m",
                "n", "o", "p", "q", "r", "s", "t", "u", "v", "w", "x", "y", "z">>

toLowerChar(c) ==
    IF \E i \in 1..Len(UpperChars) : UpperChars[i] = c
    THEN LowerChars[CHOOSE i \in 1..Len(UpperChars) : UpperChars[i] = c]
    ELSE c

toLower(s) == [i \in 1..Len(s) |-> toLowerChar(s[i])]

Ann == <<"A", "n", "n">>
ann == <<"a", "n", "n">>
Bob == <<"B", "o", "b">>
Cyd == <<"C", "y", "d">>
Dee == <<"D", "e", "e">>
Ali == <<"A", "l", "i">>

(* Caller ids, as the identity provider hands them to the handlers. "Z" is *)
(* an authenticated caller that never onboards in the graph scenario.      *)
Ids == {"A", "B", "C", "D", "Z"}

Usernames == {Ann, ann, Bob}

Names == {<<"A", "l">>, <<"B", "o">>}

UserProfile(id, username, name) == [id |-> id, username |-> username, name |-> name]

-----------------------------------------------------------------------------
(* The store *)

Nodes == 1..Len(users)

(* MATCH (u:User {id: $id}) *)
NodesWithId(id) == {n \in Nodes : users[n].id = id}

(* the number of FOLLOWS relationships from node u to node t *)
Edge(u, t) == IF <<u, t>> \in DOMAIN follows THEN follows[<<u, t>>] ELSE 0

(* the number of ordered pairs of nodes joined by a FOLLOWS relationship *)
EdgeCount(f) == Cardinality(DOMAIN f)

NoFollows == [p \in {} |-> 0]

NoPosts == <<>>

(* a property the node does not have: dict.get returns None for it *)
None == "None"

(* the None of a lookup that found no User *)
NoProfile == [found |-> FALSE]

Store == [users |-> users, follows |-> follows, posts |-> posts]

(* one self._session.run(query, **args) *)
Query(name, args) == [query |-> name, args |-> args]

(* one self._session.run(query, **args) that raised: the store failed *)
QueryFailed(name, args) == [query |-> name, args |-> args, failed |-> TRUE]

Failed(q) == "failed" \in DOMAIN q

(* one self._session.run(query, **args) and the records it returned *)
QueryResult(name, args, records) ==
    [query |-> name, args |-> args, records |-> records]

RECURSIVE SumFn(_, _)
SumFn(f, S) ==
    IF S = {} THEN 0
    ELSE LET x == CHOOSE x \in S : TRUE
         IN f[x] + SumFn(f, S \ {x})

-----------------------------------------------------------------------------
(* Neo4jService: the user directory *)

create_user(profile) == Append(users, profile)

is_username_available_case_sensitive(username) ==
    Cardinality({n \in Nodes : users[n].username = username}) = 0

is_username_available(username) ==
    Cardinality({n \in Nodes : toLower(users[n].username) = toLower(username)}) = 0

is_username_available_for_user_no_exclusion(username, current_user_id) ==
    Cardinality({n \in Nodes : toLower(users[n].username) = toLower(username)}) = 0

(* an availability check for a user that compares the usernames as stored *)
is_username_available_for_user_case_sensitive(username, current_user_id) ==
    Cardinality({n \in Nodes : /\ users[n].username = username
                               /\ users[n].id # current_user_id}) = 0

is_username_available_for_user(username, current_user_id) ==
    Cardinality({n \in Nodes : /\ toLower(users[n].username) = toLower(username)
                               /\ users[n].id # current_user_id}) = 0

(* an update that creates the User when no node has the id *)
update_user_merge(user_id, name, username) ==
    IF NodesWithId(user_id) = {}
    THEN Append(users, UserProfile(user_id, username, name))
    ELSE [n \in Nodes |-> IF users[n].id = user_id
                          THEN [users[n] EXCEPT !.name = name, !.username = username]
                          ELSE users[n]]

(* an update that writes the name only *)
update_user_name_only(user_id, name, username) ==
    [n \in Nodes |-> IF users[n].id = user_id
                     THEN [users[n] EXCEPT !.name = name]
                     ELSE users[n]]

(* MATCH (u:User {id: $user_id}) SET ...: every matching node is written *)
update_user(user_id, name, username) ==
    [n \in Nodes |-> IF users[n].id = user_id
                     THEN [users[n] EXCEPT !.name = name, !.username = username]
                     ELSE users[n]]

-----------------------------------------------------------------------------
(* Request handlers of the user directory. Each handler is one step: the  *)
(* requests are processed one at a time.                                   *)

Response(op, caller, arg, status, body) ==
    [op |-> op, caller |-> caller, arg |-> arg, status |-> status, body |-> body]

create_onboarding(caller, username, name, cap) ==
    /\ pre' = Store
    /\ UNCHANGED <<requests, sessions>>
    /\ UNCHANGED posts
    /\ IF ~is_username_available(username)
       THEN /\ UNCHANGED <<users, follows>>
            /\ queries' = <<Query("is_username_available", <<username>>)>>
            /\ last' = Response("create_onboarding", caller, username, 409, <<>>)
       ELSE /\ Len(users) < cap
            /\ users' = create_user(UserProfile(caller, username, name))
            /\ UNCHANGED follows
            /\ queries' = <<Query("is_username_available", <<username>>),
                            Query("create_user", <<caller, name, username>>)>>
            /\ last' = Response("create_onboarding", caller, username, 200, <<>>)

(* a profile update without the comparison of the caller with user_id *)
update_profile_any_caller(caller, user_id, username, name) ==
    /\ pre' = Store
    /\ UNCHANGED <<requests, sessions>>
    /\ UNCHANGED <<follows, posts>>
    /\ NodesWithId(user_id) # {}
    /\ users' = update_user(user_id, name, username)
    /\ queries' = <<Query("update_user", <<user_id, name, username>>)>>
    /\ \E ret \in NodesWithId(user_id) :
         last' = Response("update_profile", caller, username, 200, users'[ret])

(* result.single() on several records returns the first of them, in the   *)
(* store's order, which nothing fixes: any matching node.                  *)
update_profile(caller, user_id, username, name) ==
    /\ pre' = Store
    /\ UNCHANGED <<requests, sessions>>
    /\ UNCHANGED posts
    /\ IF caller # user_id
       THEN /\ UNCHANGED <<users, follows>>
            /\ queries' = <<>>
            /\ last' = Response("update_profile", caller, username, 403, <<>>)
       ELSE IF NodesWithId(user_id) = {}
       THEN /\ UNCHANGED <<users, follows>>
            /\ queries' = <<Query("get_user_by_id", <<user_id>>)>>
            /\ last' = Response("update_profile", caller, username, 404, <<>>)
       ELSE \E cur \in NodesWithId(user_id) :
            IF /\ toLower(username) # toLower(users[cur].username)
               /\ ~is_username_available_for_user(username, user_id)
            THEN /\ UNCHANGED <<users, follows>>
                 /\ queries' = <<Query("get_user_by_id", <<user_id>>),
                                 Query("is_username_available_for_user",
                                       <<username, user_id>>)>>
                 /\ last' = Response("update_profile", caller, username, 409, <<>>)
            ELSE /\ users' = update_user(user_id, name, username)
                 /\ UNCHANGED follows
                 /\ queries' =
                      <<Query("get_user_by_id", <<user_id>>)>>
                      \o (IF toLower(username) # toLower(users[cur].username)
                          THEN <<Query("is_username_available_for_user",
                                       <<username, user_id>>)>>
                          ELSE <<>>)
                      \o <<Query("update_user", <<user_id, name, username>>)>>
                 /\ \E ret \in NodesWithId(user_id) :
                      last' = Response("update_profile", caller, username, 200,
                                       users'[ret])

(* except ValueError: 404; except Exception: 500 *)
update_profile_status(raised) == IF raised = "ValueError" THEN 404 ELSE 500

(* Neo4jService.update_user called by itself: the statement, then          *)
(* result.single(), then ValueError("User not found") if there is no       *)
(* record, else the profile of the record.                                 *)
update_user_call(user_id, name, username) ==
    /\ pre' = Store
    /\ UNCHANGED <<requests, sessions>>
    /\ UNCHANGED <<follows, posts>>
    /\ users' = update_user(user_id, name, username)
    /\ queries' = <<Query("update_user", <<user_id, name, username>>)>>
    /\ IF NodesWithId(user_id) = {}
       THEN last' = Response("update_user", "", user_id, 0,
                             [raised |-> "ValueError", detail |-> "User not found"])
       ELSE \E ret \in NodesWithId(user_id) :
              last' = Response("update_user", "", user_id, 0,
                               [raised |-> "", profile |-> users'[ret]])

-----------------------------------------------------------------------------
(* The user directory, from the empty store *)

DirCallers == {"A", "B"}

(* One request at a time: a handler written as one action is a whole       *)
(* request, from the session get_neo4j_service opens for it to the close   *)
(* of that session, with no other request in flight.                       *)
NoInFlight == <<>>

NoSessions == <<>>

NoRequest == Response("none", "", <<>>, 0, <<>>)

Init ==
    /\ users = <<>>
    /\ follows = NoFollows
    /\ posts = NoPosts
    /\ last = NoRequest
    /\ pre = [users |-> <<>>, follows |-> NoFollows, posts |-> NoPosts]
    /\ queries = <<>>
    /\ requests = NoInFlight
    /\ sessions = NoSessions

Next ==
    \/ \E caller \in DirCallers, username \in Usernames, name \in Names :
         create_onboarding(caller, username, name, MaxUsers)
    \/ \E caller \in DirCallers, user_id \in DirCallers, username \in Usernames, name \in Names :
         update_profile(caller, user_id, username, name)

Spec == Init /\ [][Next]_vars

-----------------------------------------------------------------------------
(* Neo4jService: the social graph *)

(* MATCH (u:User {id: $user_id}), (t:User {id: $target_id}) CREATE ...:    *)
(* a relationship is added for every matching pair, whether one exists or  *)
(* not                                                                     *)
follow_user_create(user_id, target_id) ==
    LET us == NodesWithId(user_id)
        ts == NodesWithId(target_id)
    IN [p \in DOMAIN follows \cup (us \X ts) |->
           IF p \in us \X ts THEN Edge(p[1], p[2]) + 1 ELSE follows[p]]

(* a follow in which an id that matches no node matches every node *)
follow_user_unmatched_is_any(user_id, target_id) ==
    LET us == IF NodesWithId(user_id) = {} THEN Nodes ELSE NodesWithId(user_id)
        ts == IF NodesWithId(target_id) = {} THEN Nodes ELSE NodesWithId(target_id)
    IN [p \in DOMAIN follows \cup (us \X ts) |->
           IF p \in DOMAIN follows THEN follows[p] ELSE 1]

(* a follow that is answered by a follow back *)
follow_user_mutual(user_id, target_id) ==
    LET us == NodesWithId(user_id)
        ts == NodesWithId(target_id)
    IN [p \in DOMAIN follows \cup (us \X ts) \cup (ts \X us) |->
           IF p \in DOMAIN follows THEN follows[p] ELSE 1]

(* MATCH (u:User {id: $user_id}), (t:User {id: $target_id})                *)
(* MERGE (u)-[:FOLLOWS]->(t): for every matching pair of nodes, a          *)
(* relationship is created unless one exists. No pair, no row, no change.  *)
follow_user(user_id, target_id) ==
    LET us == NodesWithId(user_id)
        ts == NodesWithId(target_id)
    IN [p \in DOMAIN follows \cup (us \X ts) |->
           IF p \in DOMAIN follows THEN follows[p] ELSE 1]

(* an unfollow that deletes every relationship of the source *)
unfollow_user_all_targets(user_id, target_id) ==
    LET us == NodesWithId(user_id)
    IN [p \in {q \in DOMAIN follows : q[1] \notin us} |-> follows[p]]

(* MATCH (u:User {id: $user_id})-[f:FOLLOWS]->(t:User {id: $target_id})    *)
(* DELETE f: every relationship between matching nodes is deleted.         *)
unfollow_user(user_id, target_id) ==
    LET us == NodesWithId(user_id)
        ts == NodesWithId(target_id)
    IN [p \in DOMAIN follows \ (us \X ts) |-> follows[p]]

(* The rows of MATCH (u:User {id: $user_id})-[:FOLLOWS]->(f:User) RETURN f *)
(* as the set of nodes f they name.                                        *)
get_following(user_id) ==
    {f \in Nodes : \E u \in NodesWithId(user_id) : Edge(u, f) > 0}

(* The number of rows of                                                   *)
(*   MATCH (u1:User {id: $user1})-[:FOLLOWS]->(m:User),                    *)
(*         (u2:User {id: $user2})-[:FOLLOWS]->(m)                          *)
(* that bind m. The two relationships of a row are different ones: with    *)
(* u1 = u2 a row needs two relationships from that node to m.              *)
MutualRows(user1, user2, m) ==
    LET pairs == NodesWithId(user1) \X NodesWithId(user2)
    IN SumFn([p \in pairs |->
                 IF p[1] = p[2]
                 THEN Edge(p[1], m) * (Edge(p[1], m) - 1)
                 ELSE Edge(p[1], m) * Edge(p[2], m)],
             pairs)

(* a mutual-connections query that returns what user1 follows *)
get_mutual_connections_first_only(user1, user2) ==
    [m \in get_following(user1) |-> 1]

(* RETURN m, one record per row, in no specified order: the records as a   *)
(* bag, node |-> number of records.                                        *)
get_mutual_connections(user1, user2) ==
    [m \in {n \in Nodes : MutualRows(user1, user2, n) > 0} |->
        MutualRows(user1, user2, m)]

(* count(DISTINCT u2) of the rows                                          *)
(*   (u1:User {id:$user_id})-[:FOLLOWS]->(u2:User)-[:FOLLOWS]->(c:User)    *)
(*   WHERE NOT (u1)-[:FOLLOWS]->(c) AND c <> u1                            *)
(* grouped by c. The two relationships of a row differ: they are the same  *)
(* one only when u1 = u2 = c, which c <> u1 excludes.                      *)
SuggestionVia(user_id, c) ==
    {u2 \in Nodes : \E u1 \in NodesWithId(user_id) :
        /\ Edge(u1, u2) > 0
        /\ Edge(u2, c) > 0
        /\ Edge(u1, c) = 0
        /\ c # u1}

mutualCount(user_id, c) == Cardinality(SuggestionVia(user_id, c))

(* OPTIONAL MATCH (c)<-[:FOLLOWS]-(follower:User) ... count(DISTINCT follower) *)
followers(c) == Cardinality({f \in Nodes : Edge(f, c) > 0})

SuggestionCandidates(user_id) == {c \in Nodes : mutualCount(user_id, c) > 0}

(* the sequences that list every element of S once *)
Orderings(S) ==
    {s \in [1..Cardinality(S) -> S] : \A i, j \in DOMAIN s : i # j => s[i] # s[j]}

Take(s, n) == IF Len(s) <= n THEN s ELSE SubSeq(s, 1, n)

(* ORDER BY mutualCount DESC LIMIT 10: the candidate nodes in every order  *)
(* the store may return them in (ties are in no specified order), cut to   *)
(* the first ten.                                                          *)
SuggestionRows(user_id) ==
    {Take(s, SuggestionLimit) :
        s \in {o \in Orderings(SuggestionCandidates(user_id)) :
                  \A i, j \in DOMAIN o :
                      i < j => mutualCount(user_id, o[i]) >= mutualCount(user_id, o[j])}}

(* UserProfile(..., followers_count=record.get("followers", 0)); `node`   *)
(* keeps which node the record came from.                                  *)
SuggestedProfile(c) ==
    [node |-> c, id |-> users[c].id, username |-> users[c].username,
     name |-> users[c].name, followers_count |-> followers(c)]

(* The lists get_following_suggestions may return. The limit parameter is  *)
(* not passed to the query, whose LIMIT is the literal 10.                 *)
get_following_suggestions(user_id, limit) ==
    {[i \in DOMAIN rows |-> SuggestedProfile(rows[i])] : rows \in SuggestionRows(user_id)}

-----------------------------------------------------------------------------
(* Request handlers of the social graph *)

(* a follow handler that does not compare target_id with the caller's id *)
route_follow_user_no_self_check(caller, target_id) ==
    /\ pre' = Store
    /\ UNCHANGED <<requests, sessions>>
    /\ UNCHANGED <<users, posts>>
    /\ follows' = follow_user(caller, target_id)
    /\ EdgeCount(follows') <= MaxEdges
    /\ queries' = <<Query("follow_user", <<caller, target_id>>)>>
    /\ last' = Response("follow_user", caller, target_id, 200, <<>>)

route_follow_user(caller, target_id) ==
    /\ pre' = Store
    /\ UNCHANGED <<requests, sessions>>
    /\ UNCHANGED <<users, posts>>
    /\ IF target_id = caller
       THEN /\ UNCHANGED follows
            /\ queries' = <<>>
            /\ last' = Response("follow_user", caller, target_id, 400, <<>>)
       ELSE /\ follows' = follow_user(caller, target_id)
            /\ EdgeCount(follows') <= MaxEdges
            /\ queries' = <<Query("follow_user", <<caller, target_id>>)>>
            /\ last' = Response("follow_user", caller, target_id, 200, <<>>)

route_unfollow_user(caller, target_id) ==
    /\ pre' = Store
    /\ UNCHANGED <<requests, sessions>>
    /\ UNCHANGED <<users, posts>>
    /\ follows' = unfollow_user(caller, target_id)
    /\ queries' = <<Query("unfollow_user", <<caller, target_id>>)>>
    /\ last' = Response("unfollow_user", caller, target_id, 200, <<>>)

mutual_connections(caller, other_id) ==
    /\ pre' = Store
    /\ UNCHANGED <<requests, sessions>>
    /\ UNCHANGED <<users, follows, posts>>
    /\ queries' = <<Query("get_mutual_connections", <<caller, other_id>>)>>
    /\ last' = Response("mutual_connections", caller, other_id, 200,
                        get_mutual_connections(caller, other_id))

get_suggested_users(caller) ==
    /\ pre' = Store
    /\ UNCHANGED <<requests, sessions>>
    /\ UNCHANGED <<users, follows, posts>>
    /\ queries' = <<Query("get_following_suggestions", <<caller>>)>>
    /\ \E list \in get_following_suggestions(caller, DefaultLimit) :
         last' = Response("get_suggested_users", caller, DefaultLimit, 200, list)

-----------------------------------------------------------------------------
(* The social graph, from the store in which A, B, C and D have onboarded. *)
(* A may onboard once more under another username.                         *)

SeedUsers ==
    <<UserProfile("A", Ann, <<"A", "l">>), UserProfile("B", Bob, <<"B", "o">>),
      UserProfile("C", Cyd, <<"B", "o">>), UserProfile("D", Dee, <<"B", "o">>)>>

FollowRequests ==
    {<<"A", "B">>, <<"A", "C">>, <<"A", "D">>, <<"B", "A">>, <<"B", "C">>,
     <<"B", "D">>, <<"D", "C">>, <<"A", "A">>, <<"A", "Z">>}

UnfollowRequests ==
    {<<"A", "B">>, <<"A", "C">>, <<"B", "A">>, <<"B", "C">>, <<"A", "Z">>, <<"Z", "A">>}

MutualRequests == {<<"A", "A">>, <<"A", "B">>, <<"B", "A">>, <<"B", "D">>}

SuggestionCallers == {"A", "B"}

InitGraph ==
    /\ users = SeedUsers
    /\ follows = NoFollows
    /\ posts = NoPosts
    /\ last = NoRequest
    /\ pre = [users |-> SeedUsers, follows |-> NoFollows, posts |-> NoPosts]
    /\ queries = <<>>
    /\ requests = NoInFlight
    /\ sessions = NoSessions

NextGraph ==
    \/ create_onboarding("A", Ali, <<"A", "l">>, MaxNodes)
    \/ \E r \in FollowRequests : route_follow_user(r[1], r[2])
    \/ \E r \in UnfollowRequests : route_unfollow_user(r[1], r[2])
    \/ \E r \in MutualRequests : mutual_connections(r[1], r[2])
    \/ \E caller \in SuggestionCallers : get_suggested_users(caller)

SpecGraph == InitGraph /\ [][NextGraph]_vars

(* The same requests in a store where every id has one User node: no one   *)
(* onboards again.                                                         *)
NextUnique ==
    \/ \E r \in FollowRequests : route_follow_user(r[1], r[2])
    \/ \E r \in UnfollowRequests : route_unfollow_user(r[1], r[2])
    \/ \E r \in MutualRequests : mutual_connections(r[1], r[2])
    \/ \E caller \in SuggestionCallers : get_suggested_users(caller)

SpecUnique == InitGraph /\ [][NextUnique]_vars

-----------------------------------------------------------------------------
(* Neo4jService: lookups, counts, search and popularity *)

(* MATCH (u:User {id: $user_id}) RETURN u; result.single(): the profile of *)
(* the record, of any of the records when there are several, or None.      *)
get_user_by_id(user_id) ==
    IF NodesWithId(user_id) = {} THEN {NoProfile}
    ELSE {users[n] : n \in NodesWithId(user_id)}

(* a username lookup that ignores case *)
get_user_by_username_ignoring_case(username) ==
    LET found == {n \in Nodes : toLower(users[n].username) = toLower(username)}
    IN IF found = {} THEN {NoProfile} ELSE {users[n] : n \in found}

(* MATCH (u:User {username: $username}) RETURN u; result.single() *)
get_user_by_username(username) ==
    LET found == {n \in Nodes : users[n].username = username}
    IN IF found = {} THEN {NoProfile} ELSE {users[n] : n \in found}

(* MATCH (follower:User)-[:FOLLOWS]->(u:User {id: $user_id})               *)
(* RETURN count(follower), and the same for the relationships from u:      *)
(* count counts the rows, one per relationship.                            *)
get_follow_counts(user_id) ==
    LET into == Nodes \X NodesWithId(user_id)
        from == NodesWithId(user_id) \X Nodes
    IN <<SumFn([p \in into |-> Edge(p[1], p[2])], into),
         SumFn([p \in from |-> Edge(p[1], p[2])], from)>>

(* s CONTAINS t *)
Contains(s, t) ==
    \E i \in 0..(Len(s) - Len(t)) : SubSeq(s, i + 1, i + Len(t)) = t

(* a search that matches the username only *)
SearchMatches_username_only(search_term, user_id) ==
    {u \in Nodes : /\ Contains(toLower(users[u].username), toLower(search_term))
                   /\ users[u].id # user_id}

(* MATCH (u:User) WHERE (toLower(u.name) CONTAINS toLower($search_term)    *)
(*   OR toLower(u.username) CONTAINS toLower($search_term))                *)
(*   AND u.id <> $user_id                                                  *)
SearchMatches(search_term, user_id) ==
    {u \in Nodes : /\ \/ Contains(toLower(users[u].name), toLower(search_term))
                      \/ Contains(toLower(users[u].username), toLower(search_term))
                   /\ users[u].id # user_id}

(* the empty list of profiles *)
NoRecords == [u \in {} |-> 0]

(* OPTIONAL MATCH (u)<-[:FOLLOWS]-(follower:User)                          *)
(* RETURN u, count(DISTINCT follower) AS followers: one record per node u, *)
(* in no specified order. The records as a function of the node: how many  *)
(* records name it, and the UserProfile built from them.                   *)
search_users(search_term, user_id) ==
    [u \in SearchMatches(search_term, user_id) |->
        [records |-> 1, id |-> users[u].id, username |-> users[u].username,
         name |-> users[u].name, followers_count |-> followers(u)]]

(* MATCH (u:User)<-[:FOLLOWS]-(u2:User) RETURN u, count(DISTINCT u2) *)
PopularCandidates == {u \in Nodes : followers(u) > 0}

(* a popularity query with no ORDER BY: the candidates in any order *)
RECURSIVE PopularOrdersUnordered(_)
PopularOrdersUnordered(S) ==
    IF S = {} THEN {<<>>}
    ELSE UNION {{<<u>> \o o : o \in PopularOrdersUnordered(S \ {u})} : u \in S}

(* ORDER BY followers DESC: every order the store may return the           *)
(* candidates in; equal counts are in no specified order.                  *)
RECURSIVE PopularOrders(_)
PopularOrders(S) ==
    IF S = {} THEN {<<>>}
    ELSE UNION {{<<u>> \o o : o \in PopularOrders(S \ {u})} :
                  u \in {x \in S : \A y \in S : followers(x) >= followers(y)}}

(* UserProfile(..., followers_count=record.get("followers", 0),            *)
(* following_count=record.get("following_count", 0)); the record has no    *)
(* following_count.                                                        *)
PopularProfile(u) ==
    [node |-> u, id |-> users[u].id, username |-> users[u].username,
     name |-> users[u].name, followers_count |-> followers(u),
     following_count |-> 0]

(* the lists explore_popular_users may return: LIMIT $limit *)
explore_popular_users(limit) ==
    {[i \in DOMAIN Take(o, limit) |-> PopularProfile(o[i])] :
        o \in PopularOrders(PopularCandidates)}

-----------------------------------------------------------------------------
(* Request handlers of lookups, search and popularity *)

Whitespace == {" ", "\t", "\n"}

(* str.strip() *)
RECURSIVE strip(_)
strip(q) ==
    IF q = <<>> THEN q
    ELSE IF Head(q) \in Whitespace THEN strip(Tail(q))
    ELSE IF q[Len(q)] \in Whitespace THEN strip(SubSeq(q, 1, Len(q) - 1))
    ELSE q

(* a search handler that passes q as it came *)
route_search_users_unstripped(q, caller) ==
    /\ pre' = Store
    /\ UNCHANGED <<requests, sessions>>
    /\ UNCHANGED <<users, follows, posts>>
    /\ queries' = <<Query("search_users", <<q, caller>>)>>
    /\ last' = Response("search_users", caller, q, 200, search_users(q, caller))

route_search_users(q, caller) ==
    /\ pre' = Store
    /\ UNCHANGED <<requests, sessions>>
    /\ UNCHANGED <<users, follows, posts>>
    /\ IF q = <<>> \/ strip(q) = <<>>
       THEN /\ queries' = <<>>
            /\ last' = Response("search_users", caller, q, 200, NoRecords)
       ELSE /\ queries' = <<Query("search_users", <<strip(q), caller>>)>>
            /\ last' = Response("search_users", caller, q, 200,
                                search_users(strip(q), caller))

route_explore_popular_users(caller) ==
    /\ pre' = Store
    /\ UNCHANGED <<requests, sessions>>
    /\ UNCHANGED <<users, follows, posts>>
    /\ queries' = <<Query("explore_popular_users", <<DefaultLimit>>)>>
    /\ \E list \in explore_popular_users(DefaultLimit) :
         last' = Response("explore_popular_users", caller, DefaultLimit, 200, list)

(* ProfileResponse(..., followers_count, following_count) *)
ProfileResponse(profile, counts) ==
    [id |-> profile.id, username |-> profile.username, name |-> profile.name,
     followers_count |-> counts[1], following_count |-> counts[2]]

(* get_profile with a failure of the follow counts answered like a failure *)
(* of the lookup                                                           *)
get_profile_counts_required(user_id) ==
    /\ pre' = Store
    /\ UNCHANGED <<requests, sessions>>
    /\ UNCHANGED <<users, follows, posts>>
    /\ \/ /\ queries' = <<QueryFailed("get_user_by_id", <<user_id>>)>>
          /\ last' = Response("get_profile", "", user_id, 500, <<>>)
       \/ \E profile \in get_user_by_id(user_id) :
            IF profile = NoProfile
            THEN /\ queries' = <<Query("get_user_by_id", <<user_id>>)>>
                 /\ last' = Response("get_profile", "", user_id, 404, <<>>)
            ELSE \/ /\ queries' = <<Query("get_user_by_id", <<user_id>>),
                                    Query("followers_query", <<user_id>>),
                                    Query("following_query", <<user_id>>)>>
                    /\ last' = Response("get_profile", "", user_id, 200,
                                 ProfileResponse(profile, get_follow_counts(user_id)))
                 \/ /\ queries' \in
                         {<<Query("get_user_by_id", <<user_id>>),
                            QueryFailed("followers_query", <<user_id>>)>>,
                          <<Query("get_user_by_id", <<user_id>>),
                            Query("followers_query", <<user_id>>),
                            QueryFailed("following_query", <<user_id>>)>>}
                    /\ last' = Response("get_profile", "", user_id, 500, <<>>)

(* Any query may fail (the store is down, the query times out): the        *)
(* service raises. A failure of the lookup is answered 500; a failure of   *)
(* either query of get_follow_counts is logged and the counts are 0, 0.    *)
get_profile(user_id) ==
    /\ pre' = Store
    /\ UNCHANGED <<requests, sessions>>
    /\ UNCHANGED <<users, follows, posts>>
    /\ \/ /\ queries' = <<QueryFailed("get_user_by_id", <<user_id>>)>>
          /\ last' = Response("get_profile", "", user_id, 500, <<>>)
       \/ \E profile \in get_user_by_id(user_id) :
            IF profile = NoProfile
            THEN /\ queries' = <<Query("get_user_by_id", <<user_id>>)>>
                 /\ last' = Response("get_profile", "", user_id, 404, <<>>)
            ELSE \/ /\ queries' = <<Query("get_user_by_id", <<user_id>>),
                                    Query("followers_query", <<user_id>>),
                                    Query("following_query", <<user_id>>)>>
                    /\ last' = Response("get_profile", "", user_id, 200,
                                 ProfileResponse(profile, get_follow_counts(user_id)))
                 \/ /\ queries' \in
                         {<<Query("get_user_by_id", <<user_id>>),
                            QueryFailed("followers_query", <<user_id>>)>>,
                          <<Query("get_user_by_id", <<user_id>>),
                            Query("followers_query", <<user_id>>),
                            QueryFailed("following_query", <<user_id>>)>>}
                    /\ last' = Response("get_profile", "", user_id, 200,
                                 ProfileResponse(profile, <<0, 0>>))

get_profile_by_username(username) ==
    /\ pre' = Store
    /\ UNCHANGED <<requests, sessions>>
    /\ UNCHANGED <<users, follows, posts>>
    /\ \/ /\ queries' = <<QueryFailed("get_user_by_username", <<username>>)>>
          /\ last' = Response("get_profile_by_username", "", username, 500, <<>>)
       \/ \E profile \in get_user_by_username(username) :
            IF profile = NoProfile
            THEN /\ queries' = <<Query("get_user_by_username", <<username>>)>>
                 /\ last' = Response("get_profile_by_username", "", username, 404, <<>>)
            ELSE \/ /\ queries' = <<Query("get_user_by_username", <<username>>),
                                    Query("followers_query", <<profile.id>>),
                                    Query("following_query", <<profile.id>>)>>
                    /\ last' = Response("get_profile_by_username", "", username, 200,
                                 ProfileResponse(profile, get_follow_counts(profile.id)))
                 \/ /\ queries' \in
                         {<<Query("get_user_by_username", <<username>>),
                            QueryFailed("followers_query", <<profile.id>>)>>,
                          <<Query("get_user_by_username", <<username>>),
                            Query("followers_query", <<profile.id>>),
                            QueryFailed("following_query", <<profile.id>>)>>}
                    /\ last' = Response("get_profile_by_username", "", username, 200,
                                 ProfileResponse(profile, <<0, 0>>))

-----------------------------------------------------------------------------
(* Lookups, search and popularity, from the store in which A, B and C have *)
(* onboarded. A may onboard once more under another username; "Z" never    *)
(* onboards.                                                               *)

QueryUsers == SubSeq(SeedUsers, 1, 3)

QueryFollowRequests ==
    {<<"A", "B">>, <<"B", "A">>, <<"B", "C">>, <<"C", "B">>, <<"A", "Z">>, <<"Z", "A">>}

QueryUnfollowRequests == {<<"A", "B">>, <<"B", "A">>}

SearchTerms ==
    {<<>>, <<" ", "\t">>, <<" ", "N", "n", "\n">>, <<"o">>, <<"L">>, <<"z">>}

SearchCallers == {"A", "B"}

ProfileIds == {"A", "B", "Z"}

ProfileUsernames == {Ann, ann, Ali, Bob}

InitQuery ==
    /\ users = QueryUsers
    /\ follows = NoFollows
    /\ posts = NoPosts
    /\ last = NoRequest
    /\ pre = [users |-> QueryUsers, follows |-> NoFollows, posts |-> NoPosts]
    /\ queries = <<>>
    /\ requests = NoInFlight
    /\ sessions = NoSessions

NextQuery ==
    \/ create_onboarding("A", Ali, <<"A", "l">>, MaxNodes)
    \/ \E r \in QueryFollowRequests : route_follow_user(r[1], r[2])
    \/ \E r \in QueryUnfollowRequests : route_unfollow_user(r[1], r[2])
    \/ \E q \in SearchTerms, caller \in SearchCallers : route_search_users(q, caller)
    \/ \E caller \in SearchCallers : route_explore_popular_users(caller)
    \/ \E user_id \in ProfileIds : get_profile(user_id)
    \/ \E username \in ProfileUsernames : get_profile_by_username(username)

SpecQuery == InitQuery /\ [][NextQuery]_vars

-----------------------------------------------------------------------------
(* Posts and the feed *)

Post(id, content, createdAt, author) ==
    [id |-> id, content |-> content, createdAt |-> createdAt, author |-> author]

PostNodes == 1..Len(posts)

(* randomUUID(): a value no other Post has, here one per Post node *)
UUIDs == <<"u1", "u2", "u3", "u4", "u5", "u6", "u7", "u8">>

(* "This is a sample post by " + u.name + ".": never empty. The feed reads *)
(* of the content only whether it is empty, so the name is left out.       *)
SampleContent == "This is a sample post."

(* The instants datetime() may return. *)
Times == 1..MaxTime

(* the sequence of the elements of the set of numbers S, in increasing order *)
RECURSIVE Ascending(_)
Ascending(S) ==
    IF S = {} THEN <<>>
    ELSE LET x == CHOOSE x \in S : \A y \in S : x <= y
         IN <<x>> \o Ascending(S \ {x})

(* MATCH (u:User) WITH u, rand() AS r ORDER BY r LIMIT $limit              *)
(* CREATE (u)-[:POSTED]->(:Post {id: randomUUID(), content: ...,           *)
(*                               createdAt: datetime()})                   *)
(* for the users `chosen` that the random order puts first, in a statement *)
(* whose clock reads `now`.                                                *)
seed_posts_create(chosen, now) ==
    LET authors == Ascending(chosen)
    IN posts \o [i \in 1..Len(authors) |->
                    Post(UUIDs[Len(posts) + i], SampleContent, now, authors[i])]

(* not post.get("id") or not post.get("content") *)
Skipped(post) == post.id \in {None, ""} \/ post.content \in {None, ""}

(* The rows of                                                             *)
(*   MATCH (me:User {id: $userId})-[:FOLLOWS]->(followed:User)             *)
(*         -[:POSTED]->(post:Post)                                         *)
(* one per node me, FOLLOWS relationship and Post of the followed node.    *)
FeedRows(user_id) ==
    {r \in NodesWithId(user_id) \X (1..MaxEdges) \X PostNodes :
        r[2] <= Edge(r[1], posts[r[3]].author)}

(* a feed query with no ORDER BY: the rows in any order *)
RECURSIVE FeedRecordsUnordered(_)
FeedRecordsUnordered(rows) ==
    IF rows = {} THEN {<<>>}
    ELSE UNION {{<<r>> \o o : o \in FeedRecordsUnordered(rows \ {r})} : r \in rows}

(* ORDER BY post.createdAt DESC: every order the store may return the rows *)
(* in; rows of equal createdAt are in no specified order.                  *)
RECURSIVE FeedRecords(_)
FeedRecords(rows) ==
    IF rows = {} THEN {<<>>}
    ELSE UNION {{<<r>> \o o : o \in FeedRecords(rows \ {r})} :
                  r \in {x \in rows : \A y \in rows :
                            posts[x[3]].createdAt >= posts[y[3]].createdAt}}

(* FeedPost(id, content, createdAt, author=FeedPostAuthor(id, name,        *)
(* username)) of a record; `post` keeps which Post node it came from.      *)
FeedPost(row) ==
    LET post == posts[row[3]]
        followed == users[post.author]
    IN [post |-> row[3], id |-> post.id, content |-> post.content,
        createdAt |-> post.createdAt,
        author |-> [id |-> followed.id, name |-> followed.name,
                    username |-> followed.username]]

KeptRow(row) == ~Skipped(posts[row[3]])

(* a feed that skips no record *)
FeedOfAll(records) == [i \in DOMAIN records |-> FeedPost(records[i])]

(* the loop over the records: those not skipped, in the records' order *)
FeedOf(records) ==
    LET kept == SelectSeq(records, KeptRow)
    IN [i \in DOMAIN kept |-> FeedPost(kept[i])]

(* the lists get_feed_posts may return *)
get_feed_posts(user_id) ==
    {FeedOf(records) : records \in FeedRecords(FeedRows(user_id))}

(* scripts/seed_posts.py, run with the limit given *)
seed_posts(limit) ==
    /\ pre' = Store
    /\ UNCHANGED <<requests, sessions>>
    /\ UNCHANGED <<users, follows>>
    /\ \E chosen \in SUBSET Nodes, now \in Times :
         /\ Cardinality(chosen) = (IF limit < Len(users) THEN limit ELSE Len(users))
         /\ Len(posts) + Cardinality(chosen) <= MaxPosts
         /\ posts' = seed_posts_create(chosen, now)
         /\ queries' = <<Query("seed_posts", <<limit>>)>>
         /\ last' = Response("seed_posts", "", limit, 0, Cardinality(chosen))

get_feed(caller) ==
    /\ pre' = Store
    /\ UNCHANGED <<requests, sessions>>
    /\ UNCHANGED <<users, follows, posts>>
    /\ \E records \in FeedRecords(FeedRows(caller)) :
         /\ queries' = <<QueryResult("get_feed_posts", <<caller>>, records)>>
         /\ last' = Response("get_feed", caller, <<>>, 200, FeedOf(records))

-----------------------------------------------------------------------------
(* The feed, from the store in which A and B have onboarded and that holds *)
(* two Posts written by another program than seed_posts: one without id,   *)
(* one with an empty content.                                              *)

FeedUsers == SubSeq(SeedUsers, 1, 2)

StoredPosts == <<Post(None, SampleContent, 3, 2), Post("u0", "", 1, 2)>>

(* the default of the limit parameter of seed_posts, and a smaller one *)
DefaultSeedLimit == 550

SeedLimits == {1, DefaultSeedLimit}

FeedCallers == {"A", "B"}

InitFeed ==
    /\ users = FeedUsers
    /\ follows = NoFollows
    /\ posts = StoredPosts
    /\ last = NoRequest
    /\ pre = [users |-> FeedUsers, follows |-> NoFollows, posts |-> StoredPosts]
    /\ queries = <<>>
    /\ requests = NoInFlight
    /\ sessions = NoSessions

(* the ids whose profile is updated: B, and Z, which has no User node *)
UpdateIds == {"B", "Z"}

(* the name and username of the updates *)
UpdateNames == {<<"B", "e">>}

UpdateUsernames == {<<"B", "e", "a">>}

NextFeed ==
    \/ \E user_id \in UpdateIds, name \in UpdateNames, username \in UpdateUsernames :
         \/ update_user_call(user_id, name, username)
         \/ update_profile(user_id, user_id, username, name)
    \/ route_follow_user("A", "B")
    \/ route_unfollow_user("A", "B")
    \/ \E limit \in SeedLimits : seed_posts(limit)
    \/ \E caller \in FeedCallers : get_feed(caller)

SpecFeed == InitFeed /\ [][NextFeed]_vars

-----------------------------------------------------------------------------
(* Follow and unfollow in a store that holds Posts: A and B have onboarded, *)
(* A may onboard again, the seeding script may run.                         *)

FrameFollowRequests == {<<"A", "B">>, <<"B", "A">>, <<"A", "Z">>, <<"A", "A">>}

FrameUnfollowRequests == {<<"A", "B">>, <<"B", "A">>, <<"Z", "A">>}

InitFrame ==
    /\ users = FeedUsers
    /\ follows = NoFollows
    /\ posts = StoredPosts
    /\ last = NoRequest
    /\ pre = [users |-> FeedUsers, follows |-> NoFollows, posts |-> StoredPosts]
    /\ queries = <<>>
    /\ requests = NoInFlight
    /\ sessions = NoSessions

NextFrame ==
    \/ create_onboarding("A", Ali, <<"A", "l">>, MaxNodes)
    \/ \E r \in FrameFollowRequests : route_follow_user(r[1], r[2])
    \/ \E r \in FrameUnfollowRequests : route_unfollow_user(r[1], r[2])
    \/ seed_posts(DefaultSeedLimit)

SpecFrame == InitFrame /\ [][NextFrame]_vars

-----------------------------------------------------------------------------
(* Concurrent onboarding. A handler is a coroutine: at each await another  *)
(* request can run, so a request is a sequence of steps, one per store     *)
(* interaction, between the two halves of get_neo4j_service.               *)

(* A and B ask for the same username ignoring case, C for another one *)
OnboardingRequests ==
    <<[caller |-> "A", username |-> Ann, name |-> <<"A", "l">>],
      [caller |-> "B", username |-> ann, name |-> <<"B", "o">>],
      [caller |-> "C", username |-> Bob, name |-> <<"B", "o">>]>>

(* a request that has arrived: no session yet, no response yet. seen is    *)
(* the number of User nodes its availability check looked at, node the     *)
(* User node it created.                                                   *)
Arrived(request) ==
    [caller |-> request.caller, username |-> request.username, name |-> request.name,
     pc |-> "get_neo4j_service", session |-> 0, available |-> FALSE, seen |-> 0,
     node |-> 0, status |-> 0, queries |-> <<>>]

Requests == DOMAIN requests

(* session = driver.session(); yield Neo4jService(session) *)
get_neo4j_service(r) ==
    /\ requests[r].pc = "get_neo4j_service"
    /\ sessions' = Append(sessions, [request |-> r, closed |-> FALSE, ran |-> {}])
    /\ requests' = [requests EXCEPT ![r].session = Len(sessions) + 1,
                                    ![r].pc = "is_username_available"]
    /\ UNCHANGED <<users, follows, posts, last, pre, queries>>

(* the session of r runs a query of r *)
Ran(r) == [sessions EXCEPT ![requests[r].session].ran = @ \cup {r}]

(* await neo4j_service.is_username_available(request.username), outside    *)
(* any try: an exception leaves the handler, the response is 500. The      *)
(* answer is about the store as it is at this step.                        *)
create_onboarding_is_username_available(r) ==
    /\ requests[r].pc = "is_username_available"
    /\ sessions' = Ran(r)
    /\ UNCHANGED <<users, follows, posts, last, pre, queries>>
    /\ \/ requests' = [requests EXCEPT
             ![r].queries = Append(@, QueryFailed("is_username_available",
                                                  <<requests[r].username>>)),
             ![r].status = 500,
             ![r].pc = "finally"]
       \/ requests' = [requests EXCEPT
             ![r].queries = Append(@, Query("is_username_available",
                                            <<requests[r].username>>)),
             ![r].available = is_username_available(requests[r].username),
             ![r].seen = Len(users),
             ![r].status = IF is_username_available(requests[r].username) THEN 0 ELSE 409,
             ![r].pc = IF is_username_available(requests[r].username)
                       THEN "create_user" ELSE "finally"]

(* a create that looks again and creates only where the username is free *)
create_onboarding_create_user_if_available(r) ==
    /\ requests[r].pc = "create_user"
    /\ sessions' = Ran(r)
    /\ UNCHANGED <<follows, posts, last, pre, queries>>
    /\ IF is_username_available(requests[r].username)
       THEN /\ Len(users) < MaxNodes
            /\ users' = create_user(UserProfile(requests[r].caller, requests[r].username,
                                                requests[r].name))
            /\ requests' = [requests EXCEPT
                  ![r].queries = Append(@, Query("create_user",
                        <<requests[r].caller, requests[r].name, requests[r].username>>)),
                  ![r].node = Len(users) + 1,
                  ![r].status = 200,
                  ![r].pc = "finally"]
       ELSE /\ UNCHANGED users
            /\ requests' = [requests EXCEPT ![r].status = 409, ![r].pc = "finally"]

(* await neo4j_service.create_user(profile) in try/except Exception -> 500. *)
(* create_user is a plain CREATE: it looks at no username. After it the     *)
(* handler awaits update_clerk_metadata, which touches neither the store    *)
(* nor the session and whose answer is ignored, and returns 200.            *)
create_onboarding_create_user(r) ==
    /\ requests[r].pc = "create_user"
    /\ sessions' = Ran(r)
    /\ UNCHANGED <<follows, posts, last, pre, queries>>
    /\ \/ /\ UNCHANGED users
          /\ requests' = [requests EXCEPT
                ![r].queries = Append(@, QueryFailed("create_user",
                      <<requests[r].caller, requests[r].name, requests[r].username>>)),
                ![r].status = 500,
                ![r].pc = "finally"]
       \/ /\ Len(users) < MaxNodes
          /\ users' = create_user(UserProfile(requests[r].caller, requests[r].username,
                                              requests[r].name))
          /\ requests' = [requests EXCEPT
                ![r].queries = Append(@, Query("create_user",
                      <<requests[r].caller, requests[r].name, requests[r].username>>)),
                ![r].node = Len(users) + 1,
                ![r].status = 200,
                ![r].pc = "finally"]

(* the end of a request that closes the session only of a handler that     *)
(* returned                                                                *)
get_neo4j_service_close_on_return(r) ==
    /\ requests[r].pc = "finally"
    /\ sessions' = [sessions EXCEPT
                      ![requests[r].session].closed = (requests[r].status = 200)]
    /\ requests' = [requests EXCEPT ![r].pc = "done"]
    /\ pre' = Store
    /\ queries' = requests[r].queries
    /\ last' = Response("create_onboarding", requests[r].caller, requests[r].username,
                        requests[r].status, <<>>)
    /\ UNCHANGED <<users, follows, posts>>

(* finally: await session.close(), reached when the handler returned and   *)
(* when it raised: the exception is thrown into the generator at its yield *)
get_neo4j_service_finally(r) ==
    /\ requests[r].pc = "finally"
    /\ sessions' = [sessions EXCEPT ![requests[r].session].closed = TRUE]
    /\ requests' = [requests EXCEPT ![r].pc = "done"]
    /\ pre' = Store
    /\ queries' = requests[r].queries
    /\ last' = Response("create_onboarding", requests[r].caller, requests[r].username,
                        requests[r].status, <<>>)
    /\ UNCHANGED <<users, follows, posts>>

InitConcurrent ==
    /\ users = <<>>
    /\ follows = NoFollows
    /\ posts = NoPosts
    /\ last = NoRequest
    /\ pre = [users |-> <<>>, follows |-> NoFollows, posts |-> NoPosts]
    /\ queries = <<>>
    /\ requests = [r \in DOMAIN OnboardingRequests |-> Arrived(OnboardingRequests[r])]
    /\ sessions = NoSessions

NextConcurrent ==
    \E r \in Requests :
        \/ get_neo4j_service(r)
        \/ create_onboarding_is_username_available(r)
        \/ create_onboarding_create_user(r)
        \/ get_neo4j_service_finally(r)

SpecConcurrent == InitConcurrent /\ [][NextConcurrent]_vars

-----------------------------------------------------------------------------
(* Properties *)

PreNodesWithId(id) == {n \in 1..Len(pre.users) : pre.users[n].id = id}

PreEdge(u, t) ==
    IF <<u, t>> \in DOMAIN pre.follows THEN pre.follows[<<u, t>>] ELSE 0

PreFollowing(id) ==
    {f \in 1..Len(pre.users) : \E u \in PreNodesWithId(id) : PreEdge(u, f) > 0}

(* s and t are equal ignoring the case of their letters *)
SameIgnoringCase(s, t) ==
    /\ Len(s) = Len(t)
    /\ \A i \in 1..Len(s) :
         \/ s[i] = t[i]
         \/ \E k \in 1..Len(UpperChars) : {s[i], t[i]} = {UpperChars[k], LowerChars[k]}

(* C1: follow_user is idempotent. There is at most one FOLLOWS relationship *)
(* per ordered pair of nodes; a follow request whose relationships all     *)
(* exist leaves the store unchanged; and a follow of B by a user that      *)
(* followed no one, or only B, leaves that user following exactly B.       *)
C1_FollowIdempotent ==
    /\ \A p \in DOMAIN follows : follows[p] <= 1
    /\ (last.op = "follow_user" /\ last.status = 200) =>
         /\ (\A u \in PreNodesWithId(last.caller), t \in PreNodesWithId(last.arg) :
                PreEdge(u, t) > 0) => Store = pre
         /\ ( /\ PreNodesWithId(last.caller) # {}
              /\ PreNodesWithId(last.arg) # {}
              /\ PreFollowing(last.caller) \subseteq PreNodesWithId(last.arg) )
            => get_following(last.caller) = NodesWithId(last.arg)

(* a second follow of the same target has been served *)
C1_Witness ==
    /\ last.op = "follow_user"
    /\ last.status = 200
    /\ PreNodesWithId(last.caller) # {}
    /\ PreNodesWithId(last.arg) # {}
    /\ \A u \in PreNodesWithId(last.caller), t \in PreNodesWithId(last.arg) :
         PreEdge(u, t) = 1
    /\ get_following(last.caller) = NodesWithId(last.arg)

(* C2: unfollow_user removes the relationships from A to B and nothing     *)
(* else, raises no error, and leaves the whole store unchanged when there  *)
(* is no such relationship, also when A or B is no User.                   *)
C2_UnfollowFrame ==
    last.op = "unfollow_user" =>
        /\ last.status = 200
        /\ users = pre.users
        /\ \A u, t \in Nodes :
             IF u \in NodesWithId(last.caller) /\ t \in NodesWithId(last.arg)
             THEN Edge(u, t) = 0
             ELSE Edge(u, t) = PreEdge(u, t)
        /\ (\A u \in PreNodesWithId(last.caller), t \in PreNodesWithId(last.arg) :
               PreEdge(u, t) = 0) => Store = pre

(* an unfollow of an id that is no User, in a store that has relationships *)
C2_Witness ==
    /\ last.op = "unfollow_user"
    /\ NodesWithId(last.caller) # {}
    /\ NodesWithId(last.arg) = {}
    /\ DOMAIN follows # {}
    /\ Store = pre

(* C3: with the requests processed one at a time, no two distinct User     *)
(* nodes have usernames that are equal ignoring case.                      *)
C3_UniqueUsernames ==
    \A n, m \in Nodes :
        n # m => ~SameIgnoringCase(users[n].username, users[m].username)

(* C4: is_username_available(candidate) is true exactly when no User has a *)
(* username equal to the candidate ignoring case, onboarding answers 409   *)
(* exactly then, and "ann" is unavailable once "Ann" exists.               *)
C4_UsernameAvailable ==
    /\ \A candidate \in Usernames :
         is_username_available(candidate) <=>
            ~\E n \in Nodes : SameIgnoringCase(users[n].username, candidate)
    /\ (\E n \in Nodes : users[n].username = Ann) => ~is_username_available(ann)
    /\ last.op = "create_onboarding" =>
         (last.status = 409 <=>
            \E n \in 1..Len(pre.users) :
                SameIgnoringCase(pre.users[n].username, last.arg))

(* onboarding as "ann" was refused while only "Ann" is taken *)
C4_Witness ==
    /\ last.op = "create_onboarding"
    /\ last.arg = ann
    /\ last.status = 409
    /\ \E n \in Nodes : users[n].username = Ann
    /\ \A n \in Nodes : users[n].username # ann

(* C5: is_username_available_for_user(username, id) is true exactly when   *)
(* no User with another id has that username ignoring case: true for the   *)
(* user's own username in any case, false for another user's.              *)
C5_UsernameAvailableForUser ==
    /\ \A username \in Usernames, id \in Ids :
         is_username_available_for_user(username, id) <=>
            ~\E n \in Nodes : /\ users[n].id # id
                              /\ SameIgnoringCase(users[n].username, username)
    /\ \A n \in Nodes, username \in Usernames :
         SameIgnoringCase(users[n].username, username) =>
            /\ (\A m \in Nodes : SameIgnoringCase(users[m].username, username)
                                      => users[m].id = users[n].id)
                  => is_username_available_for_user(username, users[n].id)
            /\ \A id \in Ids \ {users[n].id} :
                  ~is_username_available_for_user(username, id)
    /\ (last.op = "update_profile" /\ last.status = 409) =>
         ~is_username_available_for_user(last.arg, last.caller)

(* B was refused "ann", which A holds as "Ann" and may itself still take *)
C5_Witness ==
    /\ last.op = "update_profile"
    /\ last.status = 409
    /\ last.arg = ann
    /\ \E n \in Nodes : users[n].id # last.caller /\ users[n].username = Ann
    /\ \E n \in Nodes : /\ users[n].username = Ann
                        /\ is_username_available_for_user(ann, users[n].id)
                        /\ ~is_username_available(ann)

(* what both users follow, each node once *)
FollowedByBoth(user1, user2) ==
    [m \in get_following(user1) \cap get_following(user2) |-> 1]

(* C6: for every A and B, A = B included, get_mutual_connections(A, B)     *)
(* returns exactly the users in both following(A) and following(B), each   *)
(* once.                                                                   *)
C6_MutualIsIntersection ==
    last.op = "mutual_connections" =>
        last.body = FollowedByBoth(last.caller, last.arg)

(* C7: get_mutual_connections(A, B) and get_mutual_connections(B, A)       *)
(* return the same set of users.                                           *)
C7_MutualCommutes ==
    /\ \A a, b \in Ids :
         DOMAIN get_mutual_connections(a, b) = DOMAIN get_mutual_connections(b, a)
    /\ last.op = "mutual_connections" =>
         DOMAIN last.body = DOMAIN get_mutual_connections(last.arg, last.caller)

(* two different users have a mutual connection, and one they do not share *)
C7_Witness ==
    /\ last.op = "mutual_connections"
    /\ last.caller # last.arg
    /\ DOMAIN last.body # {}
    /\ get_following(last.caller) # get_following(last.arg)

(* the users followed by a user that U follows, U and those U follows left out *)
FriendsOfFriends(user_id) ==
    {c \in Nodes : /\ users[c].id # user_id
                   /\ c \notin get_following(user_id)
                   /\ \E u2 \in get_following(user_id) : Edge(u2, c) > 0}

FolloweesFollowing(user_id, c) ==
    Cardinality({u2 \in get_following(user_id) : Edge(u2, c) > 0})

Limits == {1, 2, DefaultLimit}

FeedPostNodes(feed) == [i \in DOMAIN feed |-> feed[i].post]

(* the Post nodes of the records the feed query returned, in their order *)
RecordPostNodes == [i \in DOMAIN queries[1].records |-> queries[1].records[i][3]]

InLastFeed(p) == \E i \in DOMAIN last.body : last.body[i].post = p

(* C11: the feed is in non-increasing order of createdAt, and the posts it *)
(* keeps are in the order the store returned them in: skipping malformed   *)
(* posts does not reorder the others.                                      *)
C11_FeedNewestFirst ==
    last.op = "get_feed" =>
        /\ \A i, j \in DOMAIN last.body :
             i < j => last.body[i].createdAt >= last.body[j].createdAt
        /\ FeedPostNodes(last.body) = SelectSeq(RecordPostNodes, InLastFeed)

(* a feed [t3, t2, t1] out of records that held skipped posts as well *)
C11_Witness ==
    /\ last.op = "get_feed"
    /\ Len(last.body) = 3
    /\ last.body[1].createdAt > last.body[2].createdAt
    /\ last.body[2].createdAt > last.body[3].createdAt
    /\ Len(queries[1].records) > Len(last.body)

(* the Posts of the users U follows that have an id and a content *)
FeedPostsOf(user_id) ==
    {p \in PostNodes : /\ posts[p].author \in get_following(user_id)
                       /\ posts[p].id \notin {None, ""}
                       /\ posts[p].content \notin {None, ""}}

(* C12: the feed of U holds exactly the Posts, with a non-empty id and a   *)
(* non-empty content, of the users U follows, each with its id and content *)
(* and its author's id, name and username; it is the empty list, with no   *)
(* error, when there is none.                                              *)
C12_FeedContent ==
    last.op = "get_feed" =>
        /\ last.status = 200
        /\ {last.body[i].post : i \in DOMAIN last.body} = FeedPostsOf(last.caller)
        /\ \A i \in DOMAIN last.body :
             LET post == posts[last.body[i].post]
             IN /\ last.body[i].id = post.id
                /\ last.body[i].content = post.content
                /\ last.body[i].author =
                     [id |-> users[post.author].id, name |-> users[post.author].name,
                      username |-> users[post.author].username]
        /\ (get_following(last.caller) = {}
            \/ \A p \in PostNodes : posts[p].author \notin get_following(last.caller))
           => last.body = <<>>

(* a feed that holds a followee's post while the store holds a malformed   *)
(* post of that followee and a post of a user the caller does not follow   *)
C12_Witness ==
    /\ last.op = "get_feed"
    /\ last.body # <<>>
    /\ \E p \in PostNodes : /\ posts[p].author \in get_following(last.caller)
                            /\ Skipped(posts[p])
    /\ \E p \in PostNodes : /\ posts[p].author \notin get_following(last.caller)
                            /\ ~Skipped(posts[p])

(* the nodes that follow node u *)
FollowerNodes(u) == {f \in Nodes : Edge(f, u) > 0}

(* the list is what the claim says of a popularity list cut at limit *)
PopularAsClaimed(list, limit) ==
    /\ Len(list) <= limit
    /\ \A i, j \in DOMAIN list : i < j => list[i].followers_count >= list[j].followers_count
    /\ \A i, j \in DOMAIN list : i # j => list[i].node # list[j].node
    /\ \A i \in DOMAIN list :
         /\ list[i].followers_count = Cardinality(FollowerNodes(list[i].node))
         /\ FollowerNodes(list[i].node) # {}
         /\ list[i].id = users[list[i].node].id
    /\ Cardinality({u \in Nodes : FollowerNodes(u) # {}}) <= limit
         => {list[i].node : i \in DOMAIN list} = {u \in Nodes : FollowerNodes(u) # {}}

ContainsIgnoringCase(s, t) ==
    \E i \in 0..(Len(s) - Len(t)) : SameIgnoringCase(SubSeq(s, i + 1, i + Len(t)), t)

(* the users other than U whose name or username holds the term *)
SearchAsClaimed(term, U) ==
    {u \in Nodes : /\ users[u].id # U
                   /\ \/ ContainsIgnoringCase(users[u].name, term)
                      \/ ContainsIgnoringCase(users[u].username, term)}

(* the result lists each user of S once, with its number of followers *)
SearchResultIs(result, S) ==
    /\ DOMAIN result = S
    /\ \A u \in DOMAIN result :
         /\ result[u].records = 1
         /\ result[u].id = users[u].id
         /\ result[u].followers_count = Cardinality(FollowerNodes(u))

Stripped(q) ==
    LET solid == {i \in DOMAIN q : q[i] \notin Whitespace}
    IN IF solid = {} THEN <<>>
       ELSE SubSeq(q, CHOOSE i \in solid : \A j \in solid : i <= j,
                      CHOOSE i \in solid : \A j \in solid : i >= j)

(* C15: the search handler returns the empty list and runs no query when q *)
(* is empty or all whitespace; otherwise it calls search_users once, with  *)
(* q stripped of the whitespace around it.                                 *)
C15_SearchBlankTerm ==
    last.op = "search_users" =>
        IF \A i \in DOMAIN last.arg : last.arg[i] \in Whitespace
        THEN /\ queries = <<>>
             /\ DOMAIN last.body = {}
             /\ last.status = 200
        ELSE /\ Len(queries) = 1
             /\ queries[1] = Query("search_users", <<Stripped(last.arg), last.caller>>)

(* a whitespace-only q was answered with [] in a store where the empty     *)
(* term matches users                                                      *)
C15_Witness ==
    /\ last.op = "search_users"
    /\ last.arg # <<>>
    /\ queries = <<>>
    /\ DOMAIN last.body = {}
    /\ DOMAIN search_users(<<>>, last.caller) # {}

(* C16: get_follow_counts(U) is the number of users that follow U and the  *)
(* number of users U follows; (0, 0) for a user without relationships and  *)
(* for an id that is no user.                                              *)
C16_FollowCounts ==
    /\ \A U \in Ids :
         get_follow_counts(U) =
            <<Cardinality({f \in Nodes : \E u \in NodesWithId(U) : Edge(f, u) > 0}),
              Cardinality(get_following(U))>>
    /\ ( /\ last.op = "get_profile"
         /\ last.status = 200
         /\ \A i \in DOMAIN queries : ~Failed(queries[i]) ) =>
         /\ last.body.followers_count =
              Cardinality({f \in Nodes : \E u \in NodesWithId(last.arg) : Edge(f, u) > 0})
         /\ last.body.following_count = Cardinality(get_following(last.arg))

(* C20: get_user_by_id and get_user_by_username answer None, and their     *)
(* handlers 404, exactly when no User has the id or exactly that username: *)
(* the username lookup is case-sensitive, so with "Ann" stored and "ann"   *)
(* not, "ann" is not found and not available either.                       *)
C20_LookupAbsent ==
    /\ \A id \in Ids :
         (NoProfile \in get_user_by_id(id)) <=> (\A n \in Nodes : users[n].id # id)
    /\ \A username \in ProfileUsernames :
         /\ (NoProfile \in get_user_by_username(username))
              <=> (\A n \in Nodes : users[n].username # username)
         /\ \A profile \in get_user_by_username(username) \ {NoProfile} :
              profile.username = username
    /\ ((\E n \in Nodes : users[n].username = Ann)
        /\ (\A n \in Nodes : users[n].username # ann))
         => get_user_by_username(ann) = {NoProfile} /\ ~is_username_available(ann)
    /\ (last.op = "get_profile" /\ ~Failed(queries[1])) =>
         /\ last.status \in {200, 404}
         /\ last.status = 404 <=> (\A n \in Nodes : users[n].id # last.arg)
    /\ (last.op = "get_profile_by_username" /\ ~Failed(queries[1])) =>
         /\ last.status \in {200, 404}
         /\ last.status = 404 <=> (\A n \in Nodes : users[n].username # last.arg)
         /\ last.status = 200 => last.body.username = last.arg

(* "ann" was looked up and not found in a store that holds "Ann" *)
C20_Witness ==
    /\ last.op = "get_profile_by_username"
    /\ last.arg = ann
    /\ last.status = 404
    /\ \E n \in Nodes : users[n].username = Ann
    /\ ~is_username_available(ann)

(* C17: follow_user(A, B) where A or B has no User node creates no         *)
(* relationship and no node and raises no error: the request is answered   *)
(* 200 and the store is as it was.                                         *)
C17_FollowMissingUser ==
    /\ \A a, b \in Ids :
         (NodesWithId(a) = {} \/ NodesWithId(b) = {}) => follow_user(a, b) = follows
    /\ ( /\ last.op = "follow_user"
         /\ last.caller # last.arg
         /\ PreNodesWithId(last.caller) = {} \/ PreNodesWithId(last.arg) = {} )
       => last.status = 200 /\ Store = pre

(* a user without a node has asked to follow one that has followers *)
C17_Witness ==
    /\ last.op = "follow_user"
    /\ last.status = 200
    /\ PreNodesWithId(last.caller) = {}
    /\ PreNodesWithId(last.arg) # {}
    /\ \E n \in NodesWithId(last.arg) : FollowerNodes(n) # {}
    /\ Store = pre

(* C18: update_user with an id that matches no User raises ValueError      *)
(* "User not found", which the profile handler answers with 404, and       *)
(* leaves the store unchanged; the handler answers 404 for such an id of   *)
(* its caller.                                                             *)
C18_UpdateNotFound ==
    /\ last.op = "update_user" =>
         IF PreNodesWithId(last.arg) = {}
         THEN /\ last.body.raised = "ValueError"
              /\ last.body.detail = "User not found"
              /\ update_profile_status(last.body.raised) = 404
              /\ Store = pre
         ELSE last.body.raised = ""
    /\ ( /\ last.op = "update_profile"
         /\ last.status # 403
         /\ PreNodesWithId(last.caller) = {} )
       => last.status = 404 /\ Store = pre

(* update_user has raised in a store that holds users, relationships and   *)
(* posts                                                                   *)
C18_Witness ==
    /\ last.op = "update_user"
    /\ last.body.raised = "ValueError"
    /\ DOMAIN follows # {}
    /\ Len(posts) > Len(StoredPosts)
    /\ Store = pre

(* the arguments of the last statement of the request: those of update_user *)
UpdateArgs == queries[Len(queries)].args

(* the request has updated a profile *)
UpdateServed ==
    \/ last.op = "update_user" /\ last.body.raised = ""
    \/ last.op = "update_profile" /\ last.status = 200

(* the profile the update returned *)
UpdateReturned == IF last.op = "update_user" THEN last.body.profile ELSE last.body

(* C19: update_user on an existing id sets the name and the username of    *)
(* that User, returns the updated profile, and changes nothing else: not   *)
(* the id, not another User, no FOLLOWS relationship and no Post. name     *)
(* stands for bio and avatar, id for email.                                *)
C19_UpdateFrame ==
    UpdateServed =>
        /\ Len(users) = Len(pre.users)
        /\ \A n \in Nodes :
             users[n] = IF pre.users[n].id = UpdateArgs[1]
                        THEN UserProfile(UpdateArgs[1], UpdateArgs[3], UpdateArgs[2])
                        ELSE pre.users[n]
        /\ UpdateReturned = UserProfile(UpdateArgs[1], UpdateArgs[3], UpdateArgs[2])
        /\ follows = pre.follows
        /\ posts = pre.posts
        /\ \A U \in Ids : get_following(U) = PreFollowing(U)

(* a user that is followed and has posts has changed name and username *)
C19_Witness ==
    /\ UpdateServed
    /\ users # pre.users
    /\ \E n \in NodesWithId(UpdateArgs[1]) :
         /\ FollowerNodes(n) # {}
         /\ \E p \in PostNodes : posts[p].author = n /\ ~Skipped(posts[p])
    /\ \E n \in Nodes : users[n].id # UpdateArgs[1]

(* C21: a follow request whose target is the caller is answered 400 and    *)
(* does not call follow_user, so that no FOLLOWS relationship joins a user *)
(* to itself, whatever follow and unfollow requests were served.           *)
C21_NoSelfFollow ==
    /\ (last.op = "follow_user" /\ last.arg = last.caller) =>
         /\ last.status = 400
         /\ queries = <<>>
         /\ Store = pre
    /\ (last.op = "follow_user" /\ last.arg # last.caller) => last.status = 200
    /\ \A p \in DOMAIN follows : users[p[1]].id # users[p[2]].id

(* a user that has two nodes and follows others was refused to follow itself *)
C21_Witness ==
    /\ last.op = "follow_user"
    /\ last.arg = last.caller
    /\ last.status = 400
    /\ Cardinality(NodesWithId(last.caller)) = 2
    /\ get_following(last.caller) # {}

(* a User with another id than the caller's held the requested username,   *)
(* ignoring case, when the request came                                    *)
HeldByAnother ==
    \E n \in 1..Len(pre.users) :
        /\ pre.users[n].id # last.caller
        /\ SameIgnoringCase(pre.users[n].username, last.arg)

(* C22: an onboarding request, or a profile update of a caller that has a  *)
(* profile, for a username that a different user holds ignoring case is    *)
(* answered 409; and a request answered 409 leaves the store unchanged.    *)
C22_ConflictRejected ==
    /\ (last.op = "create_onboarding" /\ HeldByAnother) => last.status = 409
    /\ ( /\ last.op = "update_profile"
         /\ last.status # 403
         /\ PreNodesWithId(last.caller) # {}
         /\ HeldByAnother ) => last.status = 409
    /\ last.status = 409 => Store = pre

(* a profile update to another user's username in another case was refused *)
C22_Witness ==
    /\ last.op = "update_profile"
    /\ last.status = 409
    /\ HeldByAnother
    /\ \A n \in Nodes : users[n].username # last.arg
    /\ Store = pre

(* C26: there is at most one User node per id, whatever onboarding         *)
(* requests were served.                                                   *)
C26_OneNodePerId ==
    \A n, m \in Nodes : n # m => users[n].id # users[m].id

(* C28: a profile update answered 403 has run no query and left every User *)
(* as it was; and a User whose name or username a request changed has the  *)
(* id of the caller of that request, which is a profile update.            *)
C28_OnlyOwnProfile ==
    /\ (last.op = "update_profile" /\ last.status = 403) =>
         queries = <<>> /\ Store = pre
    /\ \A n \in 1..Len(pre.users) :
         users[n] # pre.users[n] =>
            /\ last.op = "update_profile"
            /\ last.status = 200
            /\ last.caller = pre.users[n].id
            /\ users[n].id = pre.users[n].id

(* a profile update was answered 403 in a store that holds a user with     *)
(* another id than the caller's, whose fields the request named            *)
C28_Witness ==
    /\ last.op = "update_profile"
    /\ last.status = 403
    /\ queries = <<>>
    /\ \E n \in Nodes : users[n].id # last.caller /\ users[n].username # last.arg
    /\ users = pre.users

(* the profile GET handlers and the query each starts with *)
ProfileGet == last.op \in {"get_profile", "get_profile_by_username"}

LookupFailed == Failed(queries[1])

CountsFailed == \E i \in DOMAIN queries : i > 1 /\ Failed(queries[i])

(* the nodes the lookup of the last request matches *)
LookedUp ==
    IF last.op = "get_profile"
    THEN {n \in Nodes : users[n].id = last.arg}
    ELSE {n \in Nodes : users[n].username = last.arg}

(* C29: in get_profile and get_profile_by_username a failure of the        *)
(* follow-count lookup after a successful profile lookup still answers 200 *)
(* with that profile and followers_count = 0, following_count = 0; the     *)
(* answer is 500 exactly when the profile lookup itself failed, and 404    *)
(* when the lookup succeeded and found no profile.                         *)
C29_CountsDegrade ==
    ProfileGet =>
        /\ last.status \in {200, 404, 500}
        /\ last.status = 500 <=> LookupFailed
        /\ (~LookupFailed /\ LookedUp = {}) => last.status = 404
        /\ (~LookupFailed /\ LookedUp # {}) => last.status = 200
        /\ CountsFailed =>
             /\ last.status = 200
             /\ last.body.followers_count = 0
             /\ last.body.following_count = 0
             /\ \E n \in LookedUp :
                  /\ last.body.id = users[n].id
                  /\ last.body.username = users[n].username
                  /\ last.body.name = users[n].name

(* the follow counts of a user that is followed and follows failed, and    *)
(* the profile was answered with 0 and 0                                   *)
C29_Witness ==
    /\ ProfileGet
    /\ CountsFailed
    /\ last.status = 200
    /\ last.body.followers_count = 0
    /\ \E n \in LookedUp :
         /\ \E f \in Nodes : Edge(f, n) > 0
         /\ \E f \in Nodes : Edge(n, f) > 0

(* the operation of Neo4jService that runs a query *)
OperationOf(query) ==
    IF query \in {"followers_query", "following_query"}
    THEN "get_follow_counts"
    ELSE query

(* C25: every operation of the service runs exactly one query per          *)
(* invocation: no request logs two queries of the same operation.          *)
C25_OneQueryPerOperation ==
    \A i, j \in DOMAIN queries :
        i # j => OperationOf(queries[i].query) # OperationOf(queries[j].query)

PreFollowers(id) ==
    {f \in 1..Len(pre.users) : \E u \in PreNodesWithId(id) : PreEdge(f, u) > 0}

(* C27: a follow or unfollow of B by A changes no User node and no field   *)
(* of one, no Post and no POSTED edge, and no FOLLOWS relationship other   *)
(* than those from A to B (B -> A among the unchanged): following(X) for   *)
(* X other than A and followers(Y) for Y other than B are as they were.    *)
C27_FollowFrame ==
    last.op \in {"follow_user", "unfollow_user"} =>
        /\ users = pre.users
        /\ posts = pre.posts
        /\ \A u, t \in Nodes :
             (users[u].id # last.caller \/ users[t].id # last.arg)
                => Edge(u, t) = PreEdge(u, t)
        /\ \A X \in Ids \ {last.caller} : get_following(X) = PreFollowing(X)
        /\ \A Y \in Ids \ {last.arg} :
             {f \in Nodes : \E u \in NodesWithId(Y) : Edge(f, u) > 0} = PreFollowers(Y)

(* A followed B, or stopped following B, in a store with Posts where B     *)
(* follows A: A -> B changed, B -> A is there as before                    *)
C27_Witness ==
    /\ last.op \in {"follow_user", "unfollow_user"}
    /\ last.caller = "A"
    /\ last.arg = "B"
    /\ follows # pre.follows
    /\ posts # NoPosts
    /\ \E u \in NodesWithId("B"), t \in NodesWithId("A") :
         PreEdge(u, t) > 0 /\ Edge(u, t) > 0

(* the response of request r is decided *)
Responded(r) == requests[r].pc \in {"finally", "done"}

CreateFailed(r) ==
    \E i \in DOMAIN requests[r].queries :
        requests[r].queries[i].query = "create_user" /\ Failed(requests[r].queries[i])

(* C23: between the availability check of an onboarding request and its    *)
(* create nothing is atomic. A request whose check answered "available"    *)
(* creates its User whatever the store holds by then (200 unless the       *)
(* create itself failed), and two Users with the same username ignoring    *)
(* case are there exactly by that interleaving: each of the two requests   *)
(* ran its check before either of the two nodes was created.               *)
C23_CheckThenCreate ==
    /\ \A r \in Requests :
         Responded(r) =>
            /\ (requests[r].available /\ ~CreateFailed(r)) => requests[r].status = 200
            /\ requests[r].status = 200 =>
                 /\ requests[r].node \in Nodes
                 /\ users[requests[r].node] =
                      UserProfile(requests[r].caller, requests[r].username, requests[r].name)
    /\ \A r1, r2 \in Requests :
         ( /\ r1 # r2
           /\ requests[r1].node # 0
           /\ requests[r2].node # 0
           /\ SameIgnoringCase(requests[r1].username, requests[r2].username) )
         => /\ requests[r1].seen < requests[r1].node
            /\ requests[r1].seen < requests[r2].node

(* A and B both asked for "Ann" ignoring case, both were answered 200 and  *)
(* both Users are in the store                                             *)
C23_Witness ==
    /\ \A r \in {1, 2} : requests[r].pc = "done" /\ requests[r].status = 200
    /\ requests[1].caller # requests[2].caller
    /\ \E n, m \in Nodes :
         /\ n # m
         /\ users[n].id = "A"
         /\ users[m].id = "B"
         /\ SameIgnoringCase(users[n].username, users[m].username)

SessionsOf(r) == {s \in DOMAIN sessions : sessions[s].request = r}

(* C24: a request that has obtained its Neo4jService has opened exactly    *)
(* one session (none before); the session is closed once the request has   *)
(* ended, with 200, 409 or 500 alike; an open session belongs to a request *)
(* still running; and a session runs the queries of its own request only.  *)
C24_SessionPerRequest ==
    /\ \A r \in Requests :
         /\ Cardinality(SessionsOf(r)) =
              (IF requests[r].pc = "get_neo4j_service" THEN 0 ELSE 1)
         /\ requests[r].pc # "get_neo4j_service" => SessionsOf(r) = {requests[r].session}
         /\ requests[r].pc = "done" => sessions[requests[r].session].closed
    /\ \A s \in DOMAIN sessions :
         /\ ~sessions[s].closed =>
              requests[sessions[s].request].pc \notin {"get_neo4j_service", "done"}
         /\ sessions[s].ran \subseteq {sessions[s].request}
    /\ \A r1, r2 \in Requests :
         (r1 # r2 /\ requests[r1].session # 0) => requests[r1].session # requests[r2].session

(* three requests have ended, one with 200, one with 409 and one with 500, *)
(* each on its own session, all closed                                     *)
C24_Witness ==
    /\ \A r \in Requests : requests[r].pc = "done"
    /\ {requests[r].status : r \in Requests} = {200, 409, 500}
    /\ Len(sessions) = 3
    /\ \A s \in DOMAIN sessions : sessions[s].closed /\ sessions[s].ran # {}

====
